---- MODULE Spec2Model ----
(***************************************************************************)
(* Model of the CLN HTLC interceptor (cln_interceptor.go): the stream      *)
(* lifecycle (Start / intercept loop / Stop / WaitStarted), the per-HTLC   *)
(* handler goroutines and the onion payload rewriting.                     *)
(*                                                                         *)
(* Bytes are integers 0..255.  A uint64 that is read from or written to    *)
(* the wire (a varint: payload length, TLV type, TLV length) is kept at    *)
(* full width as its 8 big-endian bytes, so that no value is truncated.    *)
(* Hex strings are sequences of one-character strings.                     *)
(***************************************************************************)
EXTENDS Integers, Sequences, FiniteSets, TLC

\* ------------------------------------------------------------------ bounds
\* Longest payload enumerated byte by byte over RawAlphabet.
MaxRawLen == 7
\* Number of HTLC events the node delivers over the interceptor's lifetime.
MaxEvents == 2
\* Number of Start calls made on one interceptor object.
MaxStarts == 2
\* Number of streams that are broken by a transport error on Recv.
MaxRecvErrors == 1

\* Channels one GetChannel result holds at most.
MaxChannels == 2

\* ------------------------------------------------------- byte-level helpers
Zeros(n) == [k \in 1..n |-> 0]

Drop(s, n) == SubSeq(s, n + 1, Len(s))

Take(s, n) == SubSeq(s, 1, n)

\* A small number as a uint64 (8 big-endian bytes).
U64Of(n) == <<0, 0, 0, 0, 0, (n \div 65536) % 256, (n \div 256) % 256, n % 256>>

\* a < b on uint64 values.
RECURSIVE LessBytes(_, _)
LessBytes(a, b) ==
    IF a = <<>> THEN FALSE
    ELSE IF Head(a) # Head(b) THEN Head(a) < Head(b)
    ELSE LessBytes(Tail(a), Tail(b))

\* v + 1 on uint64, wrapping to 0 at the maximum.
RECURSIVE IncBytes(_)
IncBytes(v) ==
    IF v = <<>> THEN <<>>
    ELSE LET n == Len(v)
         IN  IF v[n] < 255 THEN Take(v, n - 1) \o <<v[n] + 1>>
             ELSE IncBytes(Take(v, n - 1)) \o <<0>>

MaxUint64 == [k \in 1..8 |-> 255]

\* A uint64 fits a small count when its upper five bytes are zero.
IsSmall(v) == \A k \in 1..5 : v[k] = 0

SmallValue(v) == v[6] * 65536 + v[7] * 256 + v[8]

\* -------------------------------------------------------------- hex strings
HexChars == <<"0", "1", "2", "3", "4", "5", "6", "7",
              "8", "9", "a", "b", "c", "d", "e", "f">>

HexCharsUpper == <<"0", "1", "2", "3", "4", "5", "6", "7",
                   "8", "9", "A", "B", "C", "D", "E", "F">>

\* fromHexChar: digits and letters of either case.
IsHexChar(c) == \E k \in 1..16 : HexChars[k] = c \/ HexCharsUpper[k] = c

HexVal(c) == (CHOOSE k \in 1..16 : HexChars[k] = c \/ HexCharsUpper[k] = c) - 1

\* hex.DecodeString: fails on an odd length and on any character that is
\* not a hex digit.
RECURSIVE HexPairs(_)
HexPairs(s) ==
    IF s = <<>> THEN <<>>
    ELSE <<HexVal(s[1]) * 16 + HexVal(s[2])>> \o HexPairs(Drop(s, 2))

hexDecodeString(s) ==
    IF Len(s) % 2 = 1 \/ \E k \in 1..Len(s) : ~IsHexChar(s[k])
    THEN [err |-> TRUE, bytes |-> <<>>]
    ELSE [err |-> FALSE, bytes |-> HexPairs(s)]

\* hex.EncodeToString
RECURSIVE hexEncodeToString(_)
hexEncodeToString(b) ==
    IF b = <<>> THEN <<>>
    ELSE <<HexChars[(Head(b) \div 16) + 1], HexChars[(Head(b) % 16) + 1]>>
         \o hexEncodeToString(Tail(b))

\* ------------------------------------------------------------------ varints
\* sphinx.ReadVarInt / tlv.ReadVarInt: one discriminant byte, then 0, 2, 4 or
\* 8 big-endian bytes; an encoding longer than needed is not canonical.
ReadVarInt(buf) ==
    IF buf = <<>> THEN [err |-> "EOF", val |-> Zeros(8), rest |-> <<>>]
    ELSE LET d == buf[1]
             r == Tail(buf)
             w == IF d < 253 THEN 0 ELSE IF d = 253 THEN 2 ELSE IF d = 254 THEN 4 ELSE 8
             v == Zeros(8 - w) \o Take(r, w)
             min == IF w = 2 THEN U64Of(253)
                    ELSE IF w = 4 THEN <<0, 0, 0, 0, 0, 1, 0, 0>>
                    ELSE <<0, 0, 0, 1, 0, 0, 0, 0>>
         IN  IF w = 0 THEN [err |-> "none", val |-> U64Of(d), rest |-> r]
             ELSE IF Len(r) < w
                  THEN [err |-> "ErrUnexpectedEOF", val |-> Zeros(8), rest |-> <<>>]
             ELSE IF LessBytes(v, min)
                  THEN [err |-> "ErrVarIntNotCanonical", val |-> Zeros(8), rest |-> <<>>]
             ELSE [err |-> "none", val |-> v, rest |-> Drop(r, w)]

\* tlv.WriteVarInt: the shortest of the four encodings.
WriteVarInt(v) ==
    IF (\A k \in 1..7 : v[k] = 0) /\ v[8] < 253 THEN <<v[8]>>
    ELSE IF \A k \in 1..6 : v[k] = 0 THEN <<253, v[7], v[8]>>
    ELSE IF \A k \in 1..4 : v[k] = 0 THEN <<254>> \o SubSeq(v, 5, 8)
    ELSE <<255>> \o v

\* ------------------------------------------------------------- TLV streams
\* record.NextHopOnionType
NextHopOnionType == 6

\* A TLV map (tlv.TypeMap, map[uint64][]byte) is a function from the types
\* present (uint64) to their value bytes.
EmptyMap == [t \in {} |-> <<>>]

MapPut(m, t, v) == [x \in DOMAIN m \cup {t} |-> IF x = t THEN v ELSE m[x]]

\* Stream.DecodeWithParsedTypes on a stream that knows no record: every
\* record is read as (type, length, value) and kept verbatim; types must be
\* strictly increasing.  min and overflow are the decoder's loop variables.
RECURSIVE decodeRecords(_, _, _, _)
decodeRecords(buf, min, overflow, parsedTypes) ==
    LET t == ReadVarInt(buf)
    IN  IF t.err = "EOF" THEN [err |-> "none", map |-> parsedTypes]
        ELSE IF t.err # "none" THEN [err |-> t.err, map |-> EmptyMap]
        ELSE IF overflow \/ LessBytes(t.val, min)
             THEN [err |-> "ErrStreamNotCanonical", map |-> EmptyMap]
        ELSE LET l == ReadVarInt(t.rest)
             IN  IF l.err = "EOF" THEN [err |-> "ErrUnexpectedEOF", map |-> EmptyMap]
                 ELSE IF l.err # "none" THEN [err |-> l.err, map |-> EmptyMap]
                 ELSE IF ~IsSmall(l.val) \/ SmallValue(l.val) > Len(l.rest)
                      THEN [err |-> "ErrUnexpectedEOF", map |-> EmptyMap]
                 ELSE decodeRecords(Drop(l.rest, SmallValue(l.val)),
                                    IncBytes(t.val),
                                    t.val = MaxUint64,
                                    MapPut(parsedTypes, t.val,
                                           Take(l.rest, SmallValue(l.val))))

DecodeWithParsedTypes(buf) == decodeRecords(buf, Zeros(8), FALSE, EmptyMap)

\* tlv.EUint64 via binary.BigEndian.PutUint64: byte k is v >> (8 * (8 - k)).
RECURSIVE ShiftRight8(_, _)
ShiftRight8(v, n) == IF n = 0 THEN v ELSE ShiftRight8(v \div 256, n - 1)

PutUint64BigEndian(v) == [k \in 1..8 |-> ShiftRight8(v, 8 - k) % 256]

EUint64(v) == PutUint64BigEndian(v)

\* tlv.MapToRecords followed by tlv.SortRecords: the records of the map in
\* ascending type order.
RECURSIVE SortRecords(_, _)
SortRecords(m, left) ==
    IF left = {} THEN <<>>
    ELSE LET t == CHOOSE x \in left : \A y \in left \ {x} : LessBytes(x, y)
         IN  <<[typ |-> t, value |-> m[t]]>> \o SortRecords(m, left \ {t})

MapToRecords(m) == SortRecords(m, DOMAIN m)

\* Stream.Encode: type varint, length varint, value, record after record.
RECURSIVE StreamEncode(_)
StreamEncode(records) ==
    IF records = <<>> THEN <<>>
    ELSE WriteVarInt(Head(records).typ)
         \o WriteVarInt(U64Of(Len(Head(records).value)))
         \o Head(records).value
         \o StreamEncode(Tail(records))

\* make([]byte, varInt) with a uint64 length: a length of 2^48 or more is
\* beyond the largest allocation of every platform and ends the process
\* (runtime panic "makeslice: len out of range", or out of memory).
MakeSliceCrashes(varInt) == varInt[1] # 0 \/ varInt[2] # 0

\* A rebuild that stores the next-hop value under every type (the branch for
\* the next-hop type taken unconditionally).
RebuildMapOverwritesAll(tlvMap, nextHopValue) ==
    [t \in DOMAIN tlvMap |-> nextHopValue]

\* The map rebuilt by the loop over the parsed map: the next-hop record's
\* value is replaced, every other record is copied.
RebuildMap(tlvMap, nextHopValue) ==
    [t \in DOMAIN tlvMap |->
        IF t = U64Of(NextHopOnionType) THEN nextHopValue ELSE tlvMap[t]]

encodePayloadWithNextHop(payload, channelId) ==
    LET lenRead == ReadVarInt(payload)
        varInt == lenRead.val
        bufReader == lenRead.rest
    IN  IF lenRead.err # "none"
        THEN [st |-> "error", err |-> "failed to read payload length", out |-> <<>>]
        ELSE IF MakeSliceCrashes(varInt)
        THEN [st |-> "panic", err |-> "makeslice", out |-> <<>>]
        ELSE IF ~IsSmall(varInt) \/ SmallValue(varInt) > Len(bufReader)
        THEN [st |-> "error", err |-> "failed to decode payload", out |-> <<>>]
        ELSE LET innerPayload == Take(bufReader, SmallValue(varInt))
                 decoded == DecodeWithParsedTypes(innerPayload)
                 uTlvMap == RebuildMap(decoded.map, EUint64(channelId))
             IN  IF decoded.err # "none"
                 THEN [st |-> "error", err |-> "DecodeWithParsedTypes failed", out |-> <<>>]
                 ELSE [st |-> "ok", err |-> "none",
                       out |-> StreamEncode(MapToRecords(uTlvMap))]

\* ------------------------------------------------------------- resolutions
\* interceptFailureCode values the decision function can return; the last
\* one stands for every value mapFailureCode does not list.
FailureCodes == {"FAILURE_TEMPORARY_CHANNEL_FAILURE",
                 "FAILURE_TEMPORARY_NODE_FAILURE",
                 "FAILURE_INCORRECT_OR_UNKNOWN_PAYMENT_DETAILS",
                 "FAILURE_UNLISTED"}

\* A mapper without the default arm: an unlisted reason gives no code.
mapFailureCodeNoDefault(original) ==
    CASE original = "FAILURE_TEMPORARY_CHANNEL_FAILURE" -> "1007"
      [] original = "FAILURE_TEMPORARY_NODE_FAILURE" -> "2002"
      [] original = "FAILURE_INCORRECT_OR_UNKNOWN_PAYMENT_DETAILS" -> "400F"
      [] OTHER -> ""

mapFailureCode(original) ==
    CASE original = "FAILURE_TEMPORARY_CHANNEL_FAILURE" -> "1007"
      [] original = "FAILURE_TEMPORARY_NODE_FAILURE" -> "2002"
      [] original = "FAILURE_INCORRECT_OR_UNKNOWN_PAYMENT_DETAILS" -> "400F"
      [] OTHER -> "1007"

\* proto.HtlcResolution.  kind "continue" is HtlcContinue with no field set,
\* "continue_payload" is HtlcContinue with ForwardTo and Payload, "fail" is
\* HtlcFail with a failure message.
defaultResolution(request) ==
    [corr |-> request.corr, kind |-> "continue",
     forwardTo |-> <<>>, payload |-> <<>>, failureMessage |-> ""]

failWithCode(request, code) ==
    [corr |-> request.corr, kind |-> "fail",
     forwardTo |-> <<>>, payload |-> <<>>, failureMessage |-> mapFailureCode(code)]

\* Bitwise exclusive or of two bytes.
RECURSIVE XorBits(_, _, _)
XorBits(a, b, n) ==
    IF n = 0 THEN 0
    ELSE (((a % 2) + (b % 2)) % 2) + 2 * XorBits(a \div 2, b \div 2, n - 1)

XorByte(a, b) == XorBits(a, b, 8)

\* lnwire.NewChanIDFromOutPoint: the funding txid with the output index
\* xor-ed into its last two bytes.
NewChanIDFromOutPoint(op) ==
    [k \in 1..32 |->
        IF k = 31 THEN XorByte(op.hash[31], (op.index \div 256) % 256)
        ELSE IF k = 32 THEN XorByte(op.hash[32], op.index % 256)
        ELSE op.hash[k]]

\* The builder's outcome: the resolution to send, or a run-time panic raised
\* while building it.
resumeWithOnion(request, interceptResult) ==
    LET decoded == hexDecodeString(request.payload)
        newPayload == encodePayloadWithNextHop(decoded.bytes, interceptResult.channelId)
        chanId == hexEncodeToString(NewChanIDFromOutPoint(interceptResult.channelPoint))
    IN  IF decoded.err
        THEN [panic |-> FALSE,
              res |-> failWithCode(request, "FAILURE_TEMPORARY_CHANNEL_FAILURE")]
        ELSE IF newPayload.st = "panic"
        THEN [panic |-> TRUE, res |-> defaultResolution(request)]
        ELSE IF newPayload.st = "error"
        THEN [panic |-> FALSE,
              res |-> failWithCode(request, "FAILURE_TEMPORARY_CHANNEL_FAILURE")]
        ELSE [panic |-> FALSE,
              res |-> [corr |-> request.corr, kind |-> "continue_payload",
                       forwardTo |-> chanId,
                       payload |-> hexEncodeToString(newPayload.out),
                       failureMessage |-> ""]]

\* The switch on interceptResult.action in the handler goroutine.
BuildResolution(request, interceptResult) ==
    CASE interceptResult.action = "INTERCEPT_RESUME_WITH_ONION" ->
            resumeWithOnion(request, interceptResult)
      [] interceptResult.action = "INTERCEPT_FAIL_HTLC_WITH_CODE" ->
            [panic |-> FALSE, res |-> failWithCode(request, interceptResult.failureCode)]
      [] OTHER ->
            [panic |-> FALSE, res |-> defaultResolution(request)]

\* ------------------------------------------------------------------ inputs
\* Onion payloads (length prefix, then TLV records).
\* amt_to_forward (2), outgoing_cltv_value (4), short_channel_id (6).
ForwardPayload == <<16, 2, 1, 100, 4, 1, 40, 6, 8, 0, 0, 1, 0, 0, 1, 0, 1>>

\* A final-hop style payload: no short_channel_id record.
NoNextHopPayload == <<6, 2, 1, 100, 4, 1, 40>>

\* An unknown record with a three-byte type (253) after the next-hop record.
UnknownTypePayload == <<8, 6, 1, 7, 253, 0, 253, 1, 9>>

\* Types that need the five- and nine-byte varint encodings.
WideTypePayload == <<20, 6, 0, 254, 0, 1, 0, 0, 1, 5, 255, 0, 0, 0, 1, 0, 0, 0, 0, 1, 6>>

\* The declared inner length (16) is larger than the 3 bytes that follow.
TruncatedPayload == <<16, 2, 1, 100>>

\* The declared inner length is 2^64 - 1.
HugeLengthPayload == <<255, 255, 255, 255, 255, 255, 255, 255, 255>>

\* The declared inner length is encoded in three bytes where one would do.
NonCanonicalPayload == <<253, 0, 3, 6, 1, 7>>

\* The record's declared length is larger than the rest of the inner payload.
ShortRecordPayload == <<3, 6, 8, 1>>

SamplePayloads == {ForwardPayload, NoNextHopPayload, UnknownTypePayload,
                   WideTypePayload, TruncatedPayload, HugeLengthPayload,
                   NonCanonicalPayload, ShortRecordPayload}

RawAlphabet == {0, 1, 6}

RawPayloads == UNION {[1..n -> RawAlphabet] : n \in 0..MaxRawLen}

\* Short channel ids the decision function redirects to.
ChannelIds == {1, 258, 16777473}

FundingOutPoint == [hash |-> [k \in 1..32 |-> k], index |-> 257]

\* Every shape of result the decision function (intercept) can return: each
\* action, an action the switch does not list, each failure code.
AllDecisions ==
    {[action |-> a, failureCode |-> "FAILURE_TEMPORARY_CHANNEL_FAILURE",
      channelId |-> 0, channelPoint |-> FundingOutPoint]
        : a \in {"INTERCEPT_RESUME", "INTERCEPT_UNLISTED"}}
    \cup {[action |-> "INTERCEPT_FAIL_HTLC_WITH_CODE", failureCode |-> f,
           channelId |-> 0, channelPoint |-> FundingOutPoint] : f \in FailureCodes}
    \cup {[action |-> "INTERCEPT_RESUME_WITH_ONION",
           failureCode |-> "FAILURE_TEMPORARY_CHANNEL_FAILURE",
           channelId |-> c, channelPoint |-> FundingOutPoint] : c \in {258}}

\* The decisions taken in the runs of the interceptor: one of each action.
Decisions ==
    {d \in AllDecisions :
        d.action = "INTERCEPT_FAIL_HTLC_WITH_CODE"
            => d.failureCode = "FAILURE_TEMPORARY_NODE_FAILURE"}
    \ {d \in AllDecisions : d.action = "INTERCEPT_UNLISTED"}

\* The HTLC events the node delivers in the runs of the interceptor, as
\* (payment hash, onion payload), both hex strings as on the wire: a regular
\* forward, an event whose payment hash is not hex and whose payload is cut
\* short, and an event whose payload declares a length of 2^64 - 1.
EventShapes ==
    {<<<<"a", "b">>, hexEncodeToString(ForwardPayload)>>,
     <<<<"z", "z">>, hexEncodeToString(TruncatedPayload)>>,
     <<<<"a", "b">>, hexEncodeToString(HugeLengthPayload)>>}

\* Results of the channel-graph lookup GetChannel: an error with no channel,
\* or the channels of the short channel id.
LocalNode == "local"

LookupResults ==
    {[err |-> TRUE, channels |-> <<>>],
     [err |-> FALSE, channels |-> <<[Source |-> "local", Destination |-> "peer"]>>],
     [err |-> FALSE, channels |-> <<[Source |-> "other", Destination |-> "third"],
                                    [Source |-> "peer", Destination |-> "local"]>>]}

\* Node public keys seen as channel endpoints, and every result GetChannel
\* can give: an error with no channel, or up to MaxChannels channels.
Endpoints == {"local", "peer", "other"}

ChannelDescriptors == [Source : Endpoints, Destination : Endpoints]

AllLookupResults ==
    {[err |-> TRUE, channels |-> <<>>]}
    \cup {[err |-> FALSE, channels |-> c] :
             c \in UNION {[1..n -> ChannelDescriptors] : n \in 0..MaxChannels}}

\* The events handed to the resolution builders: the sample payloads in hex,
\* and a payload that is not hex.
BuilderRequests ==
    {[corr |-> c, paymentHash |-> <<"a", "b">>, payload |-> p] :
        c \in 1..2,
        p \in {hexEncodeToString(q) : q \in SamplePayloads} \cup {<<"z", "z">>}}

\* -------------------------------------------------------------------- state
VARIABLES
    \* runs of the next-hop label computation of the receive loop
    getChannel,     \* what GetChannel returned
    label,          \* [phase, nextHop]: the local variable nextHop once computed
    \* runs of the switch of the handler goroutine
    accepted,       \* the request
    interceptResult,\* what intercept(...) returned
    resolution,     \* [phase, built]: the outcome of the switch
    \* pure-function runs of encodePayloadWithNextHop
    payload,        \* input payload bytes
    channelId,      \* target channel id
    rw,             \* [phase, result]: whether the rewriter has run, and its result
    \* the interceptor object
    initWg,         \* counter of the readiness WaitGroup
    doneWg,         \* counter of the in-flight WaitGroup
    stopRequested,  \* i.stopRequested
    hasCtx,         \* i.ctx / i.cancel have been assigned by a Start
    ctxCancelled,   \* i.ctx.Err() != nil
    \* the goroutine running Start / intercept
    lpc,            \* its position
    inited,         \* intercept's local variable
    stream,         \* interceptorClient: id of the stream of this connection
    request,        \* the event Recv returned last
    startRet,       \* what Start returned last
    \* the goroutine running Stop, the one running WaitStarted
    spc,
    wpc,
    \* the handler goroutines, one per received event
    h,
    \* the process
    panicked,       \* an unrecovered panic has ended the process
    \* history
    starts,         \* Start calls made
    stops,          \* Stop calls made
    nEvents,        \* events Recv has returned
    nStreams,       \* HtlcStream calls that returned without error
    recvErrors,     \* Recv calls ended by a transport error
    initDone,       \* initWg.Done() calls made
    deferDone,      \* initWg.Done() calls made by the deferred function
    lateEvents,     \* events Recv returned while stopRequested was set
    recvOn          \* per event, the stream whose Recv returned it

rvars == <<payload, channelId, rw, getChannel, label, accepted, interceptResult, resolution>>

ivars == <<initWg, doneWg, stopRequested, hasCtx, ctxCancelled, lpc, inited, stream,
           request, startRet, spc, wpc, h, panicked, starts, stops, nEvents,
           nStreams, recvErrors, initDone, deferDone,
           lateEvents, recvOn>>

vars == <<payload, channelId, rw, getChannel, label, accepted, interceptResult, resolution,
          initWg, doneWg, stopRequested, hasCtx, ctxCancelled,
          lpc, inited, stream, request, startRet, spc, wpc, h, panicked, starts,
          stops, nEvents, nStreams, recvErrors, initDone, deferDone,
           lateEvents, recvOn>>

\* ------------------------------------------------------------------ initial
NoRequest == [corr |-> 0, paymentHash |-> <<>>, payload |-> <<>>]

NoDecision == [action |-> "none", failureCode |-> "FAILURE_TEMPORARY_CHANNEL_FAILURE",
               channelId |-> 0, channelPoint |-> FundingOutPoint]

NoHandler == [pc |-> "none", req |-> NoRequest, nextHop |-> "", stream |-> 0,
              res |-> NoDecision, sent |-> <<>>]

NoRewrite == [phase |-> "idle", result |-> [st |-> "none", err |-> "none", out |-> <<>>]]

\* NewClnHtlcInterceptor: initWg.Add(1); everything else is the zero value.
InitInterceptor ==
    /\ initWg = 1
    /\ doneWg = 0
    /\ stopRequested = FALSE
    /\ hasCtx = FALSE
    /\ ctxCancelled = FALSE
    /\ lpc = "created"
    /\ inited = FALSE
    /\ stream = 0
    /\ request = NoRequest
    /\ startRet = "none"
    /\ spc = "idle"
    /\ wpc = "idle"
    /\ h = [e \in 1..MaxEvents |-> NoHandler]
    /\ panicked = FALSE
    /\ starts = 0
    /\ stops = 0
    /\ nEvents = 0
    /\ nStreams = 0
    /\ recvErrors = 0
    /\ initDone = 0
    /\ deferDone = 0
    /\ lateEvents = {}
    /\ recvOn = [e \in 1..MaxEvents |-> 0]

NoLookup == [err |-> TRUE, channels |-> <<>>]

NoLabel == [phase |-> "idle", nextHop |-> ""]

NoResolution == [phase |-> "idle", built |-> [panic |-> FALSE, res |-> defaultResolution(NoRequest)]]

\* No run of the label computation or of the switch on its own.
NoFunctionRuns ==
    /\ getChannel = NoLookup
    /\ label = NoLabel
    /\ accepted = NoRequest
    /\ interceptResult = NoDecision
    /\ resolution = NoResolution

Init ==
    /\ InitInterceptor
    /\ NoFunctionRuns
    /\ payload = <<>>
    /\ channelId = 0
    /\ rw = NoRewrite

\* ------------------------------------------------------------- Start, loop
\* Start, grpc.DialContext fails: cancel() of the local context, return err.
StartDialFails ==
    /\ ~panicked
    /\ UNCHANGED rvars
    /\ lpc \in {"created", "returned"}
    /\ spc \in {"idle", "returned"}
    /\ starts < MaxStarts
    /\ starts' = starts + 1
    /\ startRet' = "dial error"
    /\ lpc' = "returned"
    /\ UNCHANGED <<initWg, doneWg, stopRequested, hasCtx, ctxCancelled, inited, stream,
                   request, spc, wpc, h, panicked, stops, nEvents, nStreams,
                   recvErrors, initDone, deferDone, lateEvents, recvOn>>

\* A Start that releases the readiness barrier as soon as the dial succeeds,
\* before any stream is open.
StartDialOkSignalsReady ==
    /\ ~panicked
    /\ UNCHANGED rvars
    /\ lpc \in {"created", "returned"}
    /\ spc \in {"idle", "returned"}
    /\ starts < MaxStarts
    /\ starts' = starts + 1
    /\ hasCtx' = TRUE
    /\ ctxCancelled' = FALSE
    /\ stopRequested' = FALSE
    /\ inited' = TRUE
    /\ initWg' = initWg - 1
    /\ initDone' = initDone + 1
    /\ panicked' = (initWg - 1 < 0)
    /\ startRet' = "none"
    /\ lpc' = "outer"
    /\ UNCHANGED <<doneWg, stream, request, spc, wpc, h, stops, nEvents, nStreams,
                   recvErrors, deferDone, lateEvents, recvOn>>

\* Start, dial succeeds: a fresh context, stopRequested = false, then
\* intercept() with inited := false.
StartDialOk ==
    /\ ~panicked
    /\ UNCHANGED rvars
    /\ lpc \in {"created", "returned"}
    /\ spc \in {"idle", "returned"}
    /\ starts < MaxStarts
    /\ starts' = starts + 1
    /\ hasCtx' = TRUE
    /\ ctxCancelled' = FALSE
    /\ stopRequested' = FALSE
    /\ inited' = FALSE
    /\ startRet' = "none"
    /\ lpc' = "outer"
    /\ UNCHANGED <<initWg, doneWg, stream, request, spc, wpc, h, panicked, stops,
                   nEvents, nStreams, recvErrors, initDone, deferDone, lateEvents, recvOn>>

\* Top of the outer loop, i.ctx.Err() != nil: return i.ctx.Err().
OuterCtxDone ==
    /\ ~panicked
    /\ UNCHANGED rvars
    /\ lpc = "outer"
    /\ ctxCancelled
    /\ startRet' = "context canceled"
    /\ lpc' = "defer"
    /\ UNCHANGED <<initWg, doneWg, stopRequested, hasCtx, ctxCancelled, inited, stream,
                   request, spc, wpc, h, panicked, starts, stops, nEvents, nStreams,
                   recvErrors, initDone, deferDone, lateEvents, recvOn>>

\* pluginClient.HtlcStream returns an error: wait a second, continue.
OpenStreamFails ==
    /\ ~panicked
    /\ UNCHANGED rvars
    /\ lpc = "outer"
    /\ ~ctxCancelled
    /\ lpc' = "backoff"
    /\ UNCHANGED <<initWg, doneWg, stopRequested, hasCtx, ctxCancelled, inited, stream,
                   request, startRet, spc, wpc, h, panicked, starts, stops, nEvents,
                   nStreams, recvErrors, initDone, deferDone, lateEvents, recvOn>>

\* pluginClient.HtlcStream returns a stream: enter the receive loop.
OpenStreamOk ==
    /\ ~panicked
    /\ UNCHANGED rvars
    /\ lpc = "outer"
    /\ ~ctxCancelled
    /\ nStreams' = nStreams + 1
    /\ stream' = nStreams + 1
    /\ lpc' = "inner"
    /\ UNCHANGED <<initWg, doneWg, stopRequested, hasCtx, ctxCancelled, inited,
                   request, startRet, spc, wpc, h, panicked, starts, stops, nEvents,
                   recvErrors, initDone, deferDone, lateEvents, recvOn>>

\* <-time.After(time.Second), after a failed open or a broken receive loop.
Backoff ==
    /\ ~panicked
    /\ UNCHANGED rvars
    /\ lpc = "backoff"
    /\ lpc' = "outer"
    /\ UNCHANGED <<initWg, doneWg, stopRequested, hasCtx, ctxCancelled, inited, stream,
                   request, startRet, spc, wpc, h, panicked, starts, stops, nEvents,
                   nStreams, recvErrors, initDone, deferDone, lateEvents, recvOn>>

\* Top of the receive loop, i.ctx.Err() != nil: return i.ctx.Err().
InnerCtxDone ==
    /\ ~panicked
    /\ UNCHANGED rvars
    /\ lpc = "inner"
    /\ ctxCancelled
    /\ startRet' = "context canceled"
    /\ lpc' = "defer"
    /\ UNCHANGED <<initWg, doneWg, stopRequested, hasCtx, ctxCancelled, inited, stream,
                   request, spc, wpc, h, panicked, starts, stops, nEvents, nStreams,
                   recvErrors, initDone, deferDone, lateEvents, recvOn>>

\* Top of the receive loop: if !inited { inited = true; i.initWg.Done() }.
\* A Done that takes the counter below zero panics.
InnerInit ==
    /\ ~panicked
    /\ UNCHANGED rvars
    /\ lpc = "inner"
    /\ ~ctxCancelled
    /\ IF inited
       THEN UNCHANGED <<inited, initWg, initDone, panicked>>
       ELSE /\ inited' = TRUE
            /\ initWg' = initWg - 1
            /\ initDone' = initDone + 1
            /\ panicked' = (initWg - 1 < 0)
    /\ lpc' = "stopcheck"
    /\ UNCHANGED <<doneWg, stopRequested, hasCtx, ctxCancelled, stream, request,
                   startRet, spc, wpc, h, starts, stops, nEvents, nStreams,
                   recvErrors, deferDone, lateEvents, recvOn>>

\* if i.stopRequested { return nil }, else go on to Recv.
StopCheck ==
    /\ ~panicked
    /\ UNCHANGED rvars
    /\ lpc = "stopcheck"
    /\ IF stopRequested
       THEN /\ lpc' = "defer"
            /\ startRet' = "nil"
       ELSE /\ lpc' = "recv"
            /\ UNCHANGED startRet
    /\ UNCHANGED <<initWg, doneWg, stopRequested, hasCtx, ctxCancelled, inited, stream,
                   request, spc, wpc, h, panicked, starts, stops, nEvents, nStreams,
                   recvErrors, initDone, deferDone, lateEvents, recvOn>>

\* interceptorClient.Recv() returns the next event of the node.
RecvEvent ==
    /\ ~panicked
    /\ UNCHANGED rvars
    /\ lpc = "recv"
    /\ ~ctxCancelled
    /\ nEvents < MaxEvents
    /\ \E ev \in EventShapes :
          request' = [corr |-> nEvents + 1, paymentHash |-> ev[1], payload |-> ev[2]]
    /\ nEvents' = nEvents + 1
    /\ lateEvents' = IF stopRequested THEN lateEvents \cup {nEvents + 1} ELSE lateEvents
    /\ recvOn' = [recvOn EXCEPT ![nEvents + 1] = stream]
    /\ lpc' = "lookup"
    /\ UNCHANGED <<initWg, doneWg, stopRequested, hasCtx, ctxCancelled, inited, stream,
                   startRet, spc, wpc, h, panicked, starts, stops, nStreams,
                   recvErrors, initDone, deferDone>>

\* Recv returns codes.Canceled after the context was cancelled: break.
RecvCanceled ==
    /\ ~panicked
    /\ UNCHANGED rvars
    /\ lpc = "recv"
    /\ ctxCancelled
    /\ lpc' = "backoff"
    /\ UNCHANGED <<initWg, doneWg, stopRequested, hasCtx, ctxCancelled, inited, stream,
                   request, startRet, spc, wpc, h, panicked, starts, stops, nEvents,
                   nStreams, recvErrors, initDone, deferDone, lateEvents, recvOn>>

\* A receive loop that gives up on a transport error: Recv's error is returned.
RecvErrorReturns ==
    /\ ~panicked
    /\ UNCHANGED rvars
    /\ lpc = "recv"
    /\ ~ctxCancelled
    /\ recvErrors < MaxRecvErrors
    /\ recvErrors' = recvErrors + 1
    /\ startRet' = "recv error"
    /\ lpc' = "defer"
    /\ UNCHANGED <<initWg, doneWg, stopRequested, hasCtx, ctxCancelled, inited, stream,
                   request, spc, wpc, h, panicked, starts, stops, nEvents,
                   nStreams, initDone, deferDone, lateEvents, recvOn>>

\* Recv returns any other error: break.
RecvError ==
    /\ ~panicked
    /\ UNCHANGED rvars
    /\ lpc = "recv"
    /\ ~ctxCancelled
    /\ recvErrors < MaxRecvErrors
    /\ recvErrors' = recvErrors + 1
    /\ lpc' = "backoff"
    /\ UNCHANGED <<initWg, doneWg, stopRequested, hasCtx, ctxCancelled, inited, stream,
                   request, startRet, spc, wpc, h, panicked, starts, stops, nEvents,
                   nStreams, initDone, deferDone, lateEvents, recvOn>>

\* The label computed from GetChannel's result: the channels are searched
\* only under err != nil.
RECURSIVE FirstCounterparty(_)
FirstCounterparty(channels) ==
    IF channels = <<>> THEN "<unknown>"
    ELSE IF Head(channels).Source = LocalNode THEN Head(channels).Destination
    ELSE IF Head(channels).Destination = LocalNode THEN Head(channels).Source
    ELSE FirstCounterparty(Tail(channels))

NextHopLabel(lookup) ==
    IF lookup.err THEN FirstCounterparty(lookup.channels) ELSE "<unknown>"

\* A loop that handles one event at a time: the next handler is started only
\* when no handler is in flight.
DispatchOneAtATime ==
    /\ ~panicked
    /\ UNCHANGED rvars
    /\ lpc = "lookup"
    /\ doneWg = 0
    /\ \E lookup \in LookupResults :
          h' = [h EXCEPT ![request.corr] =
                   [pc |-> "decode", req |-> request, nextHop |-> NextHopLabel(lookup),
                    stream |-> stream, res |-> NoDecision, sent |-> <<>>]]
    /\ doneWg' = doneWg + 1
    /\ lpc' = "inner"
    /\ UNCHANGED <<initWg, stopRequested, hasCtx, ctxCancelled, inited, stream, request,
                   startRet, spc, wpc, panicked, starts, stops, nEvents, nStreams,
                   recvErrors, initDone, deferDone, lateEvents, recvOn>>

\* GetChannel returns in the receive loop; then i.doneWg.Add(1) and go func().
Dispatch ==
    /\ ~panicked
    /\ UNCHANGED rvars
    /\ lpc = "lookup"
    /\ \E lookup \in LookupResults :
          h' = [h EXCEPT ![request.corr] =
                   [pc |-> "decode", req |-> request, nextHop |-> NextHopLabel(lookup),
                    stream |-> stream, res |-> NoDecision, sent |-> <<>>]]
    /\ doneWg' = doneWg + 1
    /\ lpc' = "inner"
    /\ UNCHANGED <<initWg, stopRequested, hasCtx, ctxCancelled, inited, stream, request,
                   startRet, spc, wpc, panicked, starts, stops, nEvents, nStreams,
                   recvErrors, initDone, deferDone, lateEvents, recvOn>>

\* The deferred function, first half: if !inited { i.initWg.Done() }.
DeferRelease ==
    /\ ~panicked
    /\ UNCHANGED rvars
    /\ lpc = "defer"
    /\ IF inited
       THEN UNCHANGED <<initWg, initDone, deferDone, panicked>>
       ELSE /\ initWg' = initWg - 1
            /\ initDone' = initDone + 1
            /\ deferDone' = deferDone + 1
            /\ panicked' = (initWg - 1 < 0)
    /\ lpc' = "deferwait"
    /\ UNCHANGED <<doneWg, stopRequested, hasCtx, ctxCancelled, inited, stream, request,
                   startRet, spc, wpc, h, starts, stops, nEvents, nStreams,
                   recvErrors, lateEvents, recvOn>>

\* The deferred function, second half: i.doneWg.Wait(), then Start returns.
DeferWait ==
    /\ ~panicked
    /\ UNCHANGED rvars
    /\ lpc = "deferwait"
    /\ doneWg = 0
    /\ lpc' = "returned"
    /\ UNCHANGED <<initWg, doneWg, stopRequested, hasCtx, ctxCancelled, inited, stream,
                   request, startRet, spc, wpc, h, panicked, starts, stops, nEvents,
                   nStreams, recvErrors, initDone, deferDone, lateEvents, recvOn>>

\* ------------------------------------------------------ handler goroutines
\* hex.DecodeString(request.Htlc.PaymentHash); on error the default
\* resolution is sent.
HandlerDecode(e) ==
    /\ ~panicked
    /\ UNCHANGED rvars
    /\ h[e].pc = "decode"
    /\ IF hexDecodeString(h[e].req.paymentHash).err
       THEN h' = [h EXCEPT ![e].pc = "early done",
                           ![e].sent = Append(@, [res |-> defaultResolution(h[e].req),
                                                  stream |-> h[e].stream,
                                                  conn |-> stream])]
       ELSE h' = [h EXCEPT ![e].pc = "decide"]
    /\ UNCHANGED <<initWg, doneWg, stopRequested, hasCtx, ctxCancelled, lpc, inited,
                   stream, request, startRet, spc, wpc, panicked, starts, stops,
                   nEvents, nStreams, recvErrors, initDone, deferDone, lateEvents, recvOn>>

\* i.doneWg.Done() inside the error branch; the goroutine goes on.
HandlerEarlyDone(e) ==
    /\ ~panicked
    /\ UNCHANGED rvars
    /\ h[e].pc = "early done"
    /\ doneWg' = doneWg - 1
    /\ panicked' = (doneWg - 1 < 0)
    /\ h' = [h EXCEPT ![e].pc = IF doneWg - 1 < 0 THEN "done panic" ELSE "decide"]
    /\ UNCHANGED <<initWg, stopRequested, hasCtx, ctxCancelled, lpc, inited, stream,
                   request, startRet, spc, wpc, starts, stops, nEvents, nStreams,
                   recvErrors, initDone, deferDone, lateEvents, recvOn>>

\* intercept(...) returns its decision.
HandlerDecide(e) ==
    /\ ~panicked
    /\ UNCHANGED rvars
    /\ h[e].pc = "decide"
    /\ \E d \in Decisions : h' = [h EXCEPT ![e].pc = "send", ![e].res = d]
    /\ UNCHANGED <<initWg, doneWg, stopRequested, hasCtx, ctxCancelled, lpc, inited,
                   stream, request, startRet, spc, wpc, panicked, starts, stops,
                   nEvents, nStreams, recvErrors, initDone, deferDone, lateEvents, recvOn>>

\* A handler that sends on the stream of the loop's current connection.
HandlerSendOnCurrentStream(e) ==
    /\ ~panicked
    /\ UNCHANGED rvars
    /\ h[e].pc = "send"
    /\ LET built == BuildResolution(h[e].req, h[e].res)
       IN  IF built.panic
           THEN /\ panicked' = TRUE
                /\ h' = [h EXCEPT ![e].pc = "send panic"]
           ELSE /\ h' = [h EXCEPT ![e].pc = "done",
                                  ![e].sent = Append(@, [res |-> built.res,
                                                         stream |-> stream,
                                                         conn |-> stream])]
                /\ UNCHANGED panicked
    /\ UNCHANGED <<initWg, doneWg, stopRequested, hasCtx, ctxCancelled, lpc, inited,
                   stream, request, startRet, spc, wpc, starts, stops, nEvents,
                   nStreams, recvErrors, initDone, deferDone, lateEvents, recvOn>>

\* The switch: build the resolution and Send it on the handler's stream.
HandlerSend(e) ==
    /\ ~panicked
    /\ UNCHANGED rvars
    /\ h[e].pc = "send"
    /\ LET built == BuildResolution(h[e].req, h[e].res)
       IN  IF built.panic
           THEN /\ panicked' = TRUE
                /\ h' = [h EXCEPT ![e].pc = "send panic"]
           ELSE /\ h' = [h EXCEPT ![e].pc = "done",
                                  ![e].sent = Append(@, [res |-> built.res,
                                                         stream |-> h[e].stream,
                                                         conn |-> stream])]
                /\ UNCHANGED panicked
    /\ UNCHANGED <<initWg, doneWg, stopRequested, hasCtx, ctxCancelled, lpc, inited,
                   stream, request, startRet, spc, wpc, starts, stops, nEvents,
                   nStreams, recvErrors, initDone, deferDone, lateEvents, recvOn>>

\* i.doneWg.Done() at the end of the goroutine.
HandlerDone(e) ==
    /\ ~panicked
    /\ UNCHANGED rvars
    /\ h[e].pc = "done"
    /\ doneWg' = doneWg - 1
    /\ panicked' = (doneWg - 1 < 0)
    /\ h' = [h EXCEPT ![e].pc = IF doneWg - 1 < 0 THEN "done panic" ELSE "finished"]
    /\ UNCHANGED <<initWg, stopRequested, hasCtx, ctxCancelled, lpc, inited, stream,
                   request, startRet, spc, wpc, starts, stops, nEvents, nStreams,
                   recvErrors, initDone, deferDone, lateEvents, recvOn>>

\* ------------------------------------------------------- Stop, WaitStarted
\* Stop: i.stopRequested = true.
StopRequest ==
    /\ ~panicked
    /\ UNCHANGED rvars
    /\ spc \in {"idle", "returned"}
    /\ hasCtx
    /\ lpc # "created"
    /\ stops < starts
    /\ stops' = stops + 1
    /\ stopRequested' = TRUE
    /\ spc' = "wait"
    /\ UNCHANGED <<initWg, doneWg, hasCtx, ctxCancelled, lpc, inited, stream, request,
                   startRet, wpc, h, panicked, starts, nEvents, nStreams, recvErrors,
                   initDone, deferDone, lateEvents, recvOn>>

\* Stop: i.doneWg.Wait() returns.
StopWait ==
    /\ ~panicked
    /\ UNCHANGED rvars
    /\ spc = "wait"
    /\ doneWg = 0
    /\ spc' = "cancel"
    /\ UNCHANGED <<initWg, doneWg, stopRequested, hasCtx, ctxCancelled, lpc, inited,
                   stream, request, startRet, wpc, h, panicked, starts, stops, nEvents,
                   nStreams, recvErrors, initDone, deferDone, lateEvents, recvOn>>

\* Stop: i.cancel(); return nil.
StopCancel ==
    /\ ~panicked
    /\ UNCHANGED rvars
    /\ spc = "cancel"
    /\ ctxCancelled' = TRUE
    /\ spc' = "returned"
    /\ UNCHANGED <<initWg, doneWg, stopRequested, hasCtx, lpc, inited, stream, request,
                   startRet, wpc, h, panicked, starts, stops, nEvents, nStreams,
                   recvErrors, initDone, deferDone, lateEvents, recvOn>>

\* WaitStarted: i.initWg.Wait() returns once the counter is zero, and the
\* caller is unblocked.
WaitStarted ==
    /\ ~panicked
    /\ UNCHANGED rvars
    /\ wpc = "idle"
    /\ initWg = 0
    /\ wpc' = "ready"
    /\ UNCHANGED <<initWg, doneWg, stopRequested, hasCtx, ctxCancelled, lpc, inited,
                   stream, request, startRet, spc, h, panicked, starts, stops, nEvents,
                   nStreams, recvErrors, initDone, deferDone, lateEvents, recvOn>>

\* ----------------------------------------------------------- specification
Next ==
    \/ StartDialFails \/ StartDialOk
    \/ OuterCtxDone \/ OpenStreamFails \/ OpenStreamOk \/ Backoff
    \/ InnerCtxDone \/ InnerInit \/ StopCheck
    \/ RecvEvent \/ RecvCanceled \/ RecvError
    \/ Dispatch \/ DeferRelease \/ DeferWait
    \/ \E e \in 1..MaxEvents : HandlerDecode(e)
    \/ \E e \in 1..MaxEvents : HandlerEarlyDone(e)
    \/ \E e \in 1..MaxEvents : HandlerDecide(e)
    \/ \E e \in 1..MaxEvents : HandlerSend(e)
    \/ \E e \in 1..MaxEvents : HandlerDone(e)
    \/ StopRequest \/ StopWait \/ StopCancel
    \/ WaitStarted

Spec == Init /\ [][Next]_vars

\* ------------------------------------------- runs of the payload rewriter
\* The payloads the rewriter is run on: every byte string over RawAlphabet
\* up to MaxRawLen bytes, and the sample payloads.
RewriteInputs == RawPayloads \cup SamplePayloads

InitRewrite ==
    /\ InitInterceptor
    /\ NoFunctionRuns
    /\ payload \in RewriteInputs
    /\ channelId \in ChannelIds
    /\ rw = NoRewrite

\* encodePayloadWithNextHop(payload, channelId) is called and returns.
Rewrite ==
    /\ rw.phase = "idle"
    /\ rw' = [rw EXCEPT !.phase = "rewritten",
                        !.result = encodePayloadWithNextHop(payload, channelId)]
    /\ UNCHANGED <<payload, channelId, getChannel, label, accepted, interceptResult,
                   resolution>>
    /\ UNCHANGED ivars

NextRewrite == Rewrite

SpecRewrite == InitRewrite /\ [][NextRewrite]_vars

\* ------------------------------------ runs of the next-hop label computation
InitLabel ==
    /\ InitInterceptor
    /\ payload = <<>>
    /\ channelId = 0
    /\ rw = NoRewrite
    /\ getChannel \in AllLookupResults
    /\ label = NoLabel
    /\ accepted = NoRequest
    /\ interceptResult = NoDecision
    /\ resolution = NoResolution

\* nextHop := "<unknown>", then the search of the channels GetChannel returned.
ResolveLabel ==
    /\ label.phase = "idle"
    /\ label' = [phase |-> "resolved", nextHop |-> NextHopLabel(getChannel)]
    /\ UNCHANGED <<payload, channelId, rw, getChannel, accepted, interceptResult, resolution>>
    /\ UNCHANGED ivars

NextLabel == ResolveLabel

SpecLabel == InitLabel /\ [][NextLabel]_vars

\* --------------------------------------------- runs of the handler's switch
InitSwitch ==
    /\ InitInterceptor
    /\ payload = <<>>
    /\ channelId = 0
    /\ rw = NoRewrite
    /\ getChannel = NoLookup
    /\ label = NoLabel
    /\ accepted \in BuilderRequests
    /\ interceptResult \in AllDecisions
    /\ resolution = NoResolution

\* switch interceptResult.action: the Resolution that is handed to Send.
Switch ==
    /\ resolution.phase = "idle"
    /\ resolution' = [phase |-> "built",
                      built |-> BuildResolution(accepted, interceptResult)]
    /\ UNCHANGED <<payload, channelId, rw, getChannel, label, accepted, interceptResult>>
    /\ UNCHANGED ivars

NextSwitch == Switch

SpecSwitch == InitSwitch /\ [][NextSwitch]_vars

\* ------------------------------------------------------------------ claims
Dispatched(e) == h[e].pc # "none"

\* C1: once an event's handler has finished, exactly one Resolution has been
\* sent for it, and it carries the event's correlation identifier.
C1_ExactlyOneResolution ==
    \A e \in 1..MaxEvents :
        h[e].pc = "finished" =>
            /\ Len(h[e].sent) = 1
            /\ h[e].sent[1].res.corr = h[e].req.corr

\* C2: Stop does not cancel the context (and return) while a dispatched
\* event still has no Resolution sent.
C2_StopDrains ==
    [][(spc = "cancel" /\ spc' = "returned")
          => \A e \in 1..MaxEvents : Dispatched(e) => Len(h[e].sent) >= 1]_vars

\* C3: an event that Recv returns after Stop has set stopRequested is never
\* dispatched.
C3_LateEventsIgnored ==
    \A e \in lateEvents : ~Dispatched(e)

\* C4: the readiness barrier is released at most once and its counter never
\* goes below zero.
C4_ReadinessReleasedOnce ==
    /\ initDone <= 1
    /\ initWg >= 0

\* C5 as stated: a WaitStarted caller is unblocked only after a stream open
\* has succeeded.
C5_ReadyOnlyAfterOpen ==
    wpc = "ready" => nStreams >= 1

\* C5 as amended: a WaitStarted caller is unblocked only after a stream open
\* has succeeded, or after Stop was called and the deferred function of an
\* exiting intercept() released the barrier.
C5_ReadyAfterOpenOrExit ==
    wpc = "ready" => (nStreams >= 1 \/ (deferDone >= 1 /\ stops >= 1))

\* A WaitStarted caller is unblocked while the loop, after a successful
\* open, waits in Recv.
C5_Witness ==
    wpc = "ready" /\ nStreams >= 1 /\ lpc = "recv"

\* The loop goroutine is inside Start.
Running == lpc \notin {"created", "returned"}

\* C6: shutdown terminates.  Stated so that a finite run refutes it: while
\* Stop has been called and has not returned, or Start is still running
\* after Stop was called, the process is never in a state from which no
\* step can be taken any more (then Stop and Start can never return).
C6_ShutdownTerminates ==
    (spc \in {"wait", "cancel"} \/ (Running /\ stopRequested)) => ENABLED Next

\* The payload rewrite of a request fails: the payload is not hex, or
\* encodePayloadWithNextHop does not return a payload.
RewriteFails(req, decision) ==
    LET decoded == hexDecodeString(req.payload)
    IN  \/ decoded.err
        \/ encodePayloadWithNextHop(decoded.bytes, decision.channelId).st # "ok"

\* The handler is past its switch: it has sent, or it has panicked there.
PastSwitch(e) == h[e].pc \in {"done", "finished", "done panic", "send panic"}

\* C7: when the decision is ResumeWithOnion and the payload rewrite fails,
\* the Resolution sent is fail "1007" with the event's correlation
\* identifier, and no continue Resolution is sent.
C7_RewriteFailureFails ==
    \A e \in 1..MaxEvents :
        (/\ PastSwitch(e)
         /\ h[e].res.action = "INTERCEPT_RESUME_WITH_ONION"
         /\ RewriteFails(h[e].req, h[e].res))
        => /\ Len(h[e].sent) >= 1
           /\ \A k \in 1..Len(h[e].sent) :
                 /\ h[e].sent[k].res.kind = "fail"
                 /\ h[e].sent[k].res.failureMessage = "1007"
                 /\ h[e].sent[k].res.corr = h[e].req.corr

\* The Resolution r is the one the action tag selects.
Selected(action, r) ==
    CASE action = "INTERCEPT_RESUME_WITH_ONION" ->
            \/ r.kind = "continue_payload" /\ r.payload # <<>> /\ r.forwardTo # <<>>
            \/ r.kind = "fail"
      [] action = "INTERCEPT_FAIL_HTLC_WITH_CODE" -> r.kind = "fail"
      [] OTHER -> r.kind = "continue" /\ r.payload = <<>> /\ r.forwardTo = <<>>

\* C10: the decision's action tag selects the Resolution, and no action
\* value leaves the event without a Resolution or raises an error.
C10_ActionSelectsResolution ==
    \A e \in 1..MaxEvents :
        PastSwitch(e) =>
            /\ h[e].pc # "send panic"
            /\ Len(h[e].sent) >= 1
            /\ Selected(h[e].res.action, h[e].sent[Len(h[e].sent)].res)

\* ------------------------------------------- claims on the payload rewriter
\* The records of a TLV stream in wire order, read without any check.
RECURSIVE WireRecords(_)
WireRecords(buf) ==
    IF buf = <<>> THEN <<>>
    ELSE LET t == ReadVarInt(buf)
             l == ReadVarInt(t.rest)
             n == SmallValue(l.val)
         IN  <<[typ |-> t.val, value |-> Take(l.rest, n)]>>
             \o WireRecords(Drop(l.rest, n))

\* Every record of the stream is complete.
RECURSIVE WireOk(_)
WireOk(buf) ==
    \/ buf = <<>>
    \/ LET t == ReadVarInt(buf)
           l == ReadVarInt(t.rest)
       IN  /\ t.err = "none"
           /\ l.err = "none"
           /\ IsSmall(l.val)
           /\ SmallValue(l.val) <= Len(l.rest)
           /\ WireOk(Drop(l.rest, SmallValue(l.val)))

Ascending(records) ==
    \A i, j \in 1..Len(records) : i < j => LessBytes(records[i].typ, records[j].typ)

\* The inner payload: the bytes the length prefix announces.
InnerOf(p) == Take(ReadVarInt(p).rest, SmallValue(ReadVarInt(p).val))

\* A well-formed onion payload: a canonical length prefix, at least that
\* many bytes after it, and in them complete records of strictly ascending
\* types.
WellFormed(p) ==
    /\ ReadVarInt(p).err = "none"
    /\ IsSmall(ReadVarInt(p).val)
    /\ SmallValue(ReadVarInt(p).val) <= Len(ReadVarInt(p).rest)
    /\ WireOk(InnerOf(p))
    /\ Ascending(WireRecords(InnerOf(p)))

\* bytes is the big-endian encoding of v, read from its last byte.
RECURSIVE BigEndianIs(_, _)
BigEndianIs(bytes, v) ==
    IF bytes = <<>> THEN v = 0
    ELSE /\ bytes[Len(bytes)] = v % 256
         /\ BigEndianIs(Take(bytes, Len(bytes) - 1), v \div 256)

NextHopType == U64Of(NextHopOnionType)

\* C8: for every well-formed payload the returned payload holds a next-hop
\* record whose value is the 8-byte big-endian target channel id.
C8_NextHopPresent ==
    (rw.phase = "rewritten" /\ WellFormed(payload)) =>
        /\ rw.result.st = "ok"
        /\ WireOk(rw.result.out)
        /\ \E k \in 1..Len(WireRecords(rw.result.out)) :
              /\ WireRecords(rw.result.out)[k].typ = NextHopType
              /\ Len(WireRecords(rw.result.out)[k].value) = 8
              /\ BigEndianIs(WireRecords(rw.result.out)[k].value, channelId)

\* C9: for every well-formed payload, every input record that is not the
\* next-hop record is in the output with the same type and value, the
\* output has no type beyond the input's types and the next-hop type, and
\* the output records are in strictly ascending type order.
C9_OnlyNextHopChanges ==
    (rw.phase = "rewritten" /\ WellFormed(payload)) =>
        /\ rw.result.st = "ok"
        /\ WireOk(rw.result.out)
        /\ LET in == WireRecords(InnerOf(payload))
               out == WireRecords(rw.result.out)
           IN  /\ \A i \in 1..Len(in) :
                     in[i].typ # NextHopType => \E j \in 1..Len(out) : out[j] = in[i]
               /\ \A j \in 1..Len(out) :
                     \/ out[j].typ = NextHopType
                     \/ \E i \in 1..Len(in) : in[i].typ = out[j].typ
               /\ Ascending(out)

\* A payload with a next-hop record between two other records, one of them
\* of an unknown type, has been rewritten.
C9_Witness ==
    /\ rw.phase = "rewritten"
    /\ WellFormed(payload)
    /\ \E i, j \in 1..Len(WireRecords(InnerOf(payload))) :
          /\ WireRecords(InnerOf(payload))[i].typ = NextHopType
          /\ LessBytes(NextHopType, WireRecords(InnerOf(payload))[j].typ)
          /\ WireRecords(InnerOf(payload))[j].value # <<>>


\* C11: mapFailureCode gives "1007" for TemporaryChannelFailure, "2002" for
\* TemporaryNodeFailure, "400F" for IncorrectOrUnknownPaymentDetails and
\* "1007" for every other reason; every fail Resolution the switch builds
\* carries one of these three codes, and for a FailWithCode decision the code
\* of its reason.
ListedCode(f) ==
    IF f = "FAILURE_TEMPORARY_NODE_FAILURE" THEN "2002"
    ELSE IF f = "FAILURE_INCORRECT_OR_UNKNOWN_PAYMENT_DETAILS" THEN "400F"
    ELSE "1007"

C11_FailureCodeMapping ==
    /\ \A f \in FailureCodes : mapFailureCode(f) = ListedCode(f)
    /\ (resolution.phase = "built" /\ ~resolution.built.panic
            /\ resolution.built.res.kind = "fail")
         => /\ resolution.built.res.failureMessage \in {"1007", "2002", "400F"}
            /\ interceptResult.action = "INTERCEPT_FAIL_HTLC_WITH_CODE"
                 => resolution.built.res.failureMessage
                        = ListedCode(interceptResult.failureCode)

\* A fail Resolution built for a reason the mapper does not list.
C11_Witness ==
    /\ resolution.phase = "built"
    /\ interceptResult.action = "INTERCEPT_FAIL_HTLC_WITH_CODE"
    /\ interceptResult.failureCode = "FAILURE_UNLISTED"
    /\ resolution.built.res.kind = "fail"
    /\ resolution.built.res.failureMessage = "1007"

\* The handler of e has been started and has not ended.
Unfinished(e) == h[e].pc \in {"decode", "early done", "decide", "send", "done", "send panic"}

\* C12: the in-flight counter is never negative and equals the number of
\* dispatched events whose handler has not finished.
C12_CounterBalanced ==
    /\ doneWg >= 0
    /\ doneWg = Cardinality({e \in 1..MaxEvents : Unfinished(e)})

\* C13: for an event whose payment hash is not hex the handler stops after
\* sending the default Resolution and decrementing the counter: the decision
\* function is not invoked and at most one Resolution is sent.
C13_BadHashStops ==
    \A e \in 1..MaxEvents :
        (Dispatched(e) /\ hexDecodeString(h[e].req.paymentHash).err)
            => /\ h[e].pc \notin {"decide", "send", "done"}
               /\ h[e].res = NoDecision
               /\ Len(h[e].sent) <= 1

\* C14: while the handler of an event is inside the decision function, the
\* loop can receive the next event and dispatch it, and every other handler
\* can take its next step: decode, decide, send (stated for the decisions
\* whose Resolution needs no payload rewrite) and finish.
C14_HandlersIsolated ==
    \A e1 \in 1..MaxEvents :
        (h[e1].pc = "decide" /\ ~panicked)
            => /\ (lpc = "recv" /\ ~ctxCancelled /\ nEvents < MaxEvents)
                    => ENABLED RecvEvent
               /\ lpc = "lookup" => ENABLED Dispatch
               /\ \A e2 \in (1..MaxEvents) \ {e1} :
                    /\ h[e2].pc = "decode" => ENABLED HandlerDecode(e2)
                    /\ h[e2].pc = "decide" => ENABLED HandlerDecide(e2)
                    /\ (h[e2].pc = "send"
                            /\ h[e2].res.action # "INTERCEPT_RESUME_WITH_ONION")
                         => ENABLED HandlerSend(e2)
                    /\ h[e2].pc = "done" => ENABLED HandlerDone(e2)

\* The first event is still inside the decision function and the second,
\* received later, has had its Resolution sent and its handler finished.
C14_Witness ==
    /\ h[1].pc = "decide"
    /\ h[2].pc = "finished"
    /\ Len(h[2].sent) = 1
    /\ h[2].sent[1].res.corr = 2

\* C15: a pending channel-graph lookup is not a suspension point of the
\* receive loop: while the lookup for an event has not returned, the event's
\* handler has been started and the loop can receive the next event.
C15_LookupOffLoop ==
    (lpc = "lookup" /\ ~panicked)
        => /\ Dispatched(request.corr)
           /\ (~ctxCancelled /\ nEvents < MaxEvents) => ENABLED RecvEvent

\* C16: when the lookup succeeds and a returned channel has the local node as
\* an endpoint, the label is the other endpoint of the first such channel;
\* the label is "<unknown>" only when the lookup fails or no returned channel
\* has the local node as an endpoint.
LocalChannels(r) ==
    {k \in 1..Len(r.channels) :
        r.channels[k].Source = LocalNode \/ r.channels[k].Destination = LocalNode}

Counterparty(c) == IF c.Source = LocalNode THEN c.Destination ELSE c.Source

C16_NextHopLabel ==
    label.phase = "resolved"
        => /\ (~getChannel.err /\ LocalChannels(getChannel) # {})
                => LET first == CHOOSE k \in LocalChannels(getChannel) :
                                    \A j \in LocalChannels(getChannel) : k <= j
                   IN  label.nextHop = Counterparty(getChannel.channels[first])
           /\ label.nextHop = "<unknown>"
                => (getChannel.err \/ LocalChannels(getChannel) = {})

C18_CancellationExits ==
    [][(ctxCancelled /\ ctxCancelled')
          => /\ nStreams' = nStreams
             /\ \A e \in 1..MaxEvents : h[e].pc = "none" => h'[e].pc = "none"
             /\ (lpc = "recv" /\ lpc' # "recv") => lpc' = "backoff"
             /\ (lpc = "backoff" /\ lpc' # "backoff") => lpc' = "outer"
             /\ (lpc = "outer" /\ lpc' # "outer")
                   => (lpc' = "defer" /\ startRet' = "context canceled")]_vars

\* C19: every Resolution of an event is sent on the stream whose Recv
\* returned the event.
C19_SentOnReceivingStream ==
    \A e \in 1..MaxEvents :
        /\ Dispatched(e) => recvOn[e] # 0
        /\ \A k \in 1..Len(h[e].sent) : h[e].sent[k].stream = recvOn[e]

\* A Resolution was sent after the loop had reconnected: it went to the
\* stream of the event, not to the stream of the connection of that moment.
C19_Witness ==
    \E e \in 1..MaxEvents :
        /\ Len(h[e].sent) >= 1
        /\ h[e].sent[1].stream = recvOn[e]
        /\ h[e].sent[1].conn # recvOn[e]

\* C20: when Start has returned, every dispatched event has had its handler
\* finish.
C20_StartWaitsForHandlers ==
    lpc = "returned"
        => \A e \in 1..MaxEvents : Dispatched(e) => h[e].pc = "finished"

====
